---- MODULE Spec2Model ----
(***************************************************************************)
(* json-benchmark: the driver src/main.rs.  main() expands, for every      *)
(* enabled library and every enabled fixture file, one of three row macros *)
(* (bench_file, bench_file_simd_json, bench_file_msgpack).  A row loads    *)
(* its payload, then measures up to four operations (parse-DOM,            *)
(* stringify-DOM, parse-struct, stringify-struct) and prints one field per *)
(* operation.  The timer module (timer::bench, timer::bench_with_buf,      *)
(* Benchmark, Timer), throughput and num_trials live in the library crate, *)
(* which is not part of src/; they are modelled from their contract.       *)
(* The codecs themselves are third-party: a codec call is modelled by its  *)
(* effect on the harness (value produced, bytes written, input buffer      *)
(* clobbered, or failure).                                                 *)
(***************************************************************************)
EXTENDS Integers, Sequences, FiniteSets, TLC

\* ---------------------------------------------------------------- bounds
MaxTrials == 3
MaxDur == 2
RunTrials == 1

\* ------------------------------------------------------- program constants
DefaultTrials == 256

\* ------------------------------------------------------------ option type
None == << >>
Some(x) == << x >>

\* ------------------------------------------------ the compile-time matrix
LibOrder == << "serde_json", "rustc_serialize", "simd-json", "rmp" >>
FileOrder == << "data/canada.json", "data/citm_catalog.json", "data/twitter.json" >>
OpOrder == << "parse-dom", "stringify-dom", "parse-struct", "stringify-struct" >>

Libs == { LibOrder[i] : i \in 1..Len(LibOrder) }
Files == { FileOrder[i] : i \in 1..Len(FileOrder) }
Ops == { OpOrder[i] : i \in 1..Len(OpOrder) }
ParseOps == { "parse-dom", "parse-struct" }
StringifyOps == { "stringify-dom", "stringify-struct" }

\* The row macro main() hands to bench! for a library.
Macro(lib) ==
    CASE lib \in { "serde_json", "rustc_serialize" } -> "bench_file"
      [] lib = "simd-json" -> "bench_file_simd_json"
      [] lib = "rmp" -> "bench_file_msgpack"

\* How a row macro measures an operation: through timer::bench, through
\* timer::bench_with_buf, through its own Benchmark loop, or not at all.
Mode(lib, op) ==
    CASE Macro(lib) = "bench_file" ->
           IF op \in ParseOps THEN "bench" ELSE "bench_with_buf"
      [] Macro(lib) = "bench_file_simd_json" ->
           CASE op = "parse-dom" -> "manual_simd"
             [] op = "stringify-dom" -> "bench_with_buf"
             [] op = "parse-struct" -> "manual_simd"
             [] OTHER -> "absent"
      [] Macro(lib) = "bench_file_msgpack" ->
           CASE op = "parse-dom" -> "manual"
             [] op = "stringify-dom" -> "bench_with_buf"
             [] op = "parse-struct" -> "bench"
             [] OTHER -> "bench_with_buf"

\* The #[cfg(not(feature = ...))] print!("          ") branches.
HasBlank_shifted(lib, op) ==
    CASE Macro(lib) = "bench_file" -> op \in { "stringify-dom", "parse-struct" }
      [] Macro(lib) = "bench_file_simd_json" -> op \in { "stringify-dom" }
      [] Macro(lib) = "bench_file_msgpack" -> op \in { "stringify-dom", "parse-struct" }
HasBlank(lib, op) ==
    CASE Macro(lib) = "bench_file" ->
           op \in { "parse-dom", "stringify-dom", "parse-struct" }
      [] Macro(lib) = "bench_file_simd_json" ->
           op \in { "parse-dom", "stringify-dom" }
      [] Macro(lib) = "bench_file_msgpack" ->
           op \in { "parse-dom", "stringify-dom", "parse-struct" }

\* The serializer the timed closure calls, and the one whose output is
\* measured for the byte count after the run.
StringifyDom(lib) ==
    CASE lib = "serde_json" -> "serde_json::to_writer"
      [] lib = "rustc_serialize" -> "rustc_serialize_stringify"
      [] lib = "simd-json" -> "simd_json::Writable::write"
      [] lib = "rmp" -> "rmpv::encode::write_value"
StringifyStruct(lib) ==
    CASE lib = "serde_json" -> "serde_json::to_writer"
      [] lib = "rustc_serialize" -> "rustc_serialize_stringify"
      [] lib = "rmp" -> "rmp_serde::encode::write"
      [] OTHER -> "none"
TimedSerializer(lib, op) ==
    IF op = "stringify-dom" THEN StringifyDom(lib) ELSE StringifyStruct(lib)
MeasuredSerializer(lib, op) ==
    CASE op = "stringify-dom" -> StringifyDom(lib)
      [] Macro(lib) = "bench_file" -> StringifyDom(lib)
      [] OTHER -> StringifyStruct(lib)

\* Whether the timed closure unwraps the codec's Result.
ClosureUnwraps(lib, op) == ~ (lib = "rmp" /\ op = "stringify-dom")

\* ----------------------------------------------------------------- codecs
\* Bytes are small numbers: 0 is insignificant whitespace, 1 a token that is
\* re-serialized as itself, 2 a token (a number, say) whose canonical JSON
\* form is one byte longer.  MessagePack has a header byte (9) and no whitespace.
FileBytes(path) ==
    CASE path = "data/canada.json" -> << 2, 2, 0, 1 >>
      [] path = "data/citm_catalog.json" -> << 1, 0, 0, 1 >>
      [] path = "data/twitter.json" -> << 0, 1, 2 >>

IsToken(b) == b # 0

ParseJson(bytes) == SelectSeq(bytes, IsToken)

RECURSIVE WriteJson(_)
WriteJson(toks) ==
    IF toks = << >> THEN << >>
    ELSE (IF Head(toks) = 2 THEN << 2, 2 >> ELSE << Head(toks) >>) \o WriteJson(Tail(toks))

WriteMsgpack(toks) == << 9 >> \o toks

ReadMsgpack(bytes) == Tail(bytes)

\* What a parse of the row's payload yields for a library.
Parse(lib, kind, bytes) ==
    [ kind |-> kind,
      toks |-> IF lib = "rmp" THEN ReadMsgpack(bytes) ELSE ParseJson(bytes) ]

\* What a serializer writes for a value.
Serialize(ser, v) ==
    IF ser \in { "rmpv::encode::write_value", "rmp_serde::encode::write" }
    THEN WriteMsgpack(v.toks)
    ELSE WriteJson(v.toks)

\* simd-json parses in place: afterwards the input buffer holds either its
\* old bytes or unescaped/clobbered ones, always of the same length.
Clobbered(d) == { d, [ i \in 1..Len(d) |-> 0 ] }

\* slice::clone_from_slice: element-wise copy into a slice of equal length.
clone_from_slice_noop(dst, src) == dst
clone_from_slice(dst, src) == [ i \in 1..Len(dst) |-> src[i] ]

\* ------------------------------------------------- library crate (contract)
\* num_trials().unwrap_or(256)
NumTrials_clamped(env) == IF env = None THEN DefaultTrials ELSE IF env[1] = 0 THEN 1 ELSE env[1]
NumTrials(env) == IF env = None THEN DefaultTrials ELSE env[1]

\* Timer::stop folds the elapsed duration into the running minimum.
FoldMin(m, elapsed) ==
    IF m = None THEN Some(elapsed)
    ELSE IF elapsed < m[1] THEN Some(elapsed) ELSE m

\* Benchmark::min_elapsed has no duration to return before the first stop.
MinElapsedFails(m) == m = None

\* throughput(dur, bytes): bytes per microsecond, i.e. decimal MB/s, kept as
\* thousandths; -1 stands for the zero-duration sentinel.
throughput(dur, bytes) == IF dur = 0 THEN -1 ELSE (bytes * 1000) \div dur

\* Vec::clear: the logical length becomes zero, the capacity stays.
clear_noop(b) == b
clear(b) == << >>

\* Vec growth on a write that exceeds the capacity (amortized doubling).
GrowCap(cap, len) ==
    IF len <= cap THEN cap ELSE IF 2 * cap > len THEN 2 * cap ELSE len

\* The steps of one trial, in program order.
BenchSteps == << "start", "op", "stop" >>
BenchWithBufSteps == << "clear", "start", "op", "stop" >>
ManualSimdSteps_startFirst == << "start", "restore", "op", "stop" >>
ManualSimdSteps == << "restore", "start", "op", "stop" >>
ManualMsgpackSteps == << "start", "op", "stop" >>

Steps(mode) ==
    CASE mode = "bench" -> BenchSteps
      [] mode = "bench_with_buf" -> BenchWithBufSteps
      [] mode = "manual_simd" -> ManualSimdSteps
      [] mode = "manual" -> ManualMsgpackSteps

\* for _ in 0..num_trials
ManualLoopContinues_offByOne(doneTrials, n) == doneTrials + 1 < n
ManualLoopContinues(doneTrials, n) == doneTrials < n
BenchLoopContinues(doneTrials, n) == doneTrials < n

LoopContinues(mode, doneTrials, n) ==
    IF mode \in { "manual", "manual_simd" }
    THEN ManualLoopContinues(doneTrials, n)
    ELSE BenchLoopContinues(doneTrials, n)

\* The payload a row benchmarks: the file's bytes, or for rmp the MessagePack
\* encoding of the structure serde_json read from the file.
LoadPayload_raw(lib, path) == FileBytes(path)
LoadPayload(lib, path) ==
    IF Macro(lib) = "bench_file_msgpack"
    THEN WriteMsgpack(ParseJson(FileBytes(path)))
    ELSE FileBytes(path)

\* The byte count handed to throughput.
ReportBytes_inputLen(op, payload, serialized) == Len(payload)
ReportBytes(op, payload, serialized) ==
    IF op \in StringifyOps THEN Len(serialized) ELSE Len(payload)

\* ------------------------------------------------------------------ state
VARIABLES
    cfg,            \* cargo features: enabled libraries, files, operations
    trialEnv,       \* what num_trials() returns (the override, if given)
    clock,          \* elapsed time the clock reports for the i-th trial of an invocation
    pc,             \* position of main: main, group, row, op, trial, report, done, panicked
    panic,          \* why the process panicked ("" while it has not)
    gi, fi, oi,     \* index of the current library, file, operation
    trial,          \* trials of the current invocation already completed
    step,           \* next step of the current trial
    contents,       \* the row's payload (let contents = ...)
    data,           \* simd-json's private mutable copy (let mut data = contents.clone())
    val,            \* the value being stringified (dom / parsed)
    buf,            \* bench_with_buf's scratch buffer
    bufCap,         \* its capacity
    minElapsed,     \* Benchmark.min_elapsed
    timers,         \* trial timers started and not yet stopped
    events,         \* history: steps of the current trial executed so far
    elapsedLog,     \* history: elapsed durations of the current invocation
    execs,          \* history: codec calls made inside trials of the current invocation
    failedAt,       \* history: first trial of the current invocation whose codec call failed
    failedTriples,  \* history: (library, fixture, operation) triples in which a codec call failed
    lastWrite,      \* history: bytes the latest timed serializer call wrote
    reads,          \* history: times each fixture file was opened and read to its end
    out,            \* stdout: the rows printed so far
    headers         \* stdout: the header lines printed so far

cfgVars == << cfg, trialEnv, clock >>
ctlVars == << pc, panic, gi, fi, oi, trial, step >>
opVars == << contents, data, val, buf, bufCap, minElapsed, timers >>
histVars == << events, elapsedLog, execs, failedAt, failedTriples, lastWrite, reads >>
outVars == << out, headers >>
vars == << cfgVars, ctlVars, opVars, histVars, outVars >>

NoValue == [ kind |-> "none", toks |-> << >> ]

IsEnabledLib(l) == l \in cfg.libs
IsEnabledFile(f) == f \in cfg.files
Groups == SelectSeq(LibOrder, IsEnabledLib)
EnabledFiles == SelectSeq(FileOrder, IsEnabledFile)

CurLib == Groups[gi]
CurPath == EnabledFiles[fi]
CurOp == OpOrder[oi]
CurMode == Mode(CurLib, CurOp)
CurTriple == << CurLib, CurPath, CurOp >>
CurStep == Steps(CurMode)[step]

\* #[cfg(feature = op)] holds and the row macro has a block for op.
Compiled(lib, op) == op \in cfg.ops /\ Mode(lib, op) # "absent"

KindOf(op) == IF op \in { "parse-dom", "stringify-dom" } THEN "dom" ELSE "struct"

\* The builds and environments explored: feature sets, the trial-count
\* override, and the durations the clock will report.
InitConfig(libSets, fileSets, opSets, trialCounts, durations) ==
    /\ cfg \in [ libs : libSets, files : fileSets, ops : opSets ]
    /\ trialEnv \in { Some(n) : n \in trialCounts }
    /\ clock \in [ 1..NumTrials(trialEnv) -> durations ]

\* The state when main is entered.
InitMain ==
    /\ pc = "main" /\ panic = ""
    /\ gi = 1 /\ fi = 1 /\ oi = 1 /\ trial = 0 /\ step = 1
    /\ contents = << >> /\ data = << >> /\ val = NoValue
    /\ buf = << >> /\ bufCap = 0 /\ minElapsed = None /\ timers = 0
    /\ events = << >> /\ elapsedLog = << >> /\ execs = 0 /\ failedAt = 0
    /\ failedTriples = {} /\ lastWrite = << >>
    /\ reads = [ f \in Files |-> 0 ]
    /\ out = << >> /\ headers = << >>

\* Builds of one library and one fixture, with one operation or all four,
\* under every trial count and every clock.
Init ==
    /\ InitConfig({ { l } : l \in Libs }, { { f } : f \in Files },
                  { { o } : o \in Ops } \cup { Ops }, 0..MaxTrials, 1..MaxDur)
    /\ InitMain

\* Builds with any set of libraries, fixtures and operations, under short
\* invocations and a clock that reports the same duration for every trial.
RunDurations == { 1 }

InitRun ==
    /\ InitConfig(SUBSET Libs, SUBSET Files, SUBSET Ops, 0..RunTrials, RunDurations)
    /\ InitMain

\* ---------------------------------------------------------------- helpers
Panics(reason) == pc' = "panicked" /\ panic' = reason

AppendField(f) == [ out EXCEPT ![Len(out)].fields = Append(@, f) ]

Blank(op) == [ kind |-> "blank", op |-> op ]

\* Moves to the next step of the trial, or to the next trial, or out of the loop.
Advance ==
    IF step < Len(Steps(CurMode))
    THEN step' = step + 1 /\ trial' = trial /\ pc' = "trial"
    ELSE /\ step' = 1
         /\ trial' = trial + 1
         /\ pc' = IF LoopContinues(CurMode, trial + 1, NumTrials(trialEnv))
                  THEN "trial" ELSE "report"

Log(name) == events' = IF step = 1 THEN << name >> ELSE Append(events, name)

\* ---------------------------------------------------------------- actions
\* fn main: print!("{:>35}{:>24}", "DOM", "STRUCT")
Main ==
    /\ pc = "main"
    /\ headers' = Append(headers, "DOM STRUCT")
    /\ pc' = "group"
    /\ UNCHANGED << cfgVars, panic, gi, fi, oi, trial, step, opVars, histVars, out >>

\* bench!: the name line of an enabled library.
BenchGroup ==
    /\ pc = "group" /\ gi <= Len(Groups)
    /\ headers' = Append(headers, CurLib)
    /\ fi' = 1
    /\ pc' = "row"
    /\ UNCHANGED << cfgVars, panic, gi, oi, trial, step, opVars, histVars, out >>

\* bench!: all enabled files of the library are done.
EndGroup ==
    /\ pc = "row" /\ fi > Len(EnabledFiles)
    /\ gi' = gi + 1
    /\ pc' = "group"
    /\ UNCHANGED << cfgVars, panic, fi, oi, trial, step, opVars, histVars, outVars >>

\* main returns.
Finish ==
    /\ pc = "group" /\ gi > Len(Groups)
    /\ pc' = "done"
    /\ UNCHANGED << cfgVars, panic, gi, fi, oi, trial, step, opVars, histVars, outVars >>

\* Start of a row macro: num_trials, the path column, the payload.
BeginRow ==
    /\ pc = "row" /\ fi <= Len(EnabledFiles)
    /\ \E ok \in BOOLEAN :
         IF ok
         THEN /\ contents' = LoadPayload(CurLib, CurPath)
              /\ reads' = [ reads EXCEPT ![CurPath] = @ + 1 ]
              /\ out' = Append(out, [ lib |-> CurLib, path |-> CurPath, fields |-> << >>,
                                      done |-> FALSE, loaded |-> TRUE,
                                      payload |-> LoadPayload(CurLib, CurPath) ])
              /\ oi' = 1
              /\ pc' = "op" /\ panic' = panic
         ELSE /\ contents' = contents
              /\ reads' = reads
              /\ out' = Append(out, [ lib |-> CurLib, path |-> CurPath, fields |-> << >>,
                                      done |-> FALSE, loaded |-> FALSE,
                                      payload |-> << >> ])
              /\ oi' = oi
              /\ Panics("load")
    /\ UNCHANGED << cfgVars, gi, fi, trial, step, data, val, buf, bufCap, minElapsed,
                    timers, events, elapsedLog, execs, failedAt, failedTriples,
                    lastWrite, headers >>

\* An operation the build leaves out of the row: a blank column, or nothing.
SkipOp ==
    /\ pc = "op" /\ oi <= Len(OpOrder)
    /\ ~ Compiled(CurLib, CurOp)
    /\ out' = IF CurOp \notin cfg.ops /\ HasBlank(CurLib, CurOp)
              THEN AppendField(Blank(CurOp)) ELSE out
    /\ oi' = oi + 1
    /\ UNCHANGED << cfgVars, pc, panic, gi, fi, trial, step, opVars, histVars, headers >>

\* println!() at the end of the row macro.
EndRow ==
    /\ pc = "op" /\ oi > Len(OpOrder)
    /\ out' = [ out EXCEPT ![Len(out)].done = TRUE ]
    /\ fi' = fi + 1
    /\ pc' = "row"
    /\ UNCHANGED << cfgVars, panic, gi, oi, trial, step, opVars, histVars, headers >>

\* Entry of an operation block, up to the first loop test: the value to
\* stringify is parsed (and unwrapped), the private copy is cloned, the
\* Benchmark and the scratch buffer are created.
BeginOp ==
    /\ pc = "op" /\ oi <= Len(OpOrder)
    /\ Compiled(CurLib, CurOp)
    /\ \E ok \in (IF CurOp \in StringifyOps THEN BOOLEAN ELSE { TRUE }) :
         IF ok
         THEN /\ val' = IF CurOp \in StringifyOps
                        THEN Parse(CurLib, KindOf(CurOp), contents) ELSE NoValue
              /\ \E d \in (CASE CurMode = "manual_simd" -> { contents }
                             [] Macro(CurLib) = "bench_file_simd_json" -> Clobbered(contents)
                             [] OTHER -> { << >> }) : data' = d
              /\ bufCap' = IF CurMode = "bench_with_buf" THEN Len(contents) ELSE 0
              /\ pc' = IF LoopContinues(CurMode, 0, NumTrials(trialEnv))
                       THEN "trial" ELSE "report"
              /\ panic' = panic
              /\ failedTriples' = failedTriples
         ELSE /\ val' = val /\ data' = data /\ bufCap' = bufCap
              /\ Panics("codec")
              /\ failedTriples' = failedTriples \cup { CurTriple }
    /\ buf' = << >> /\ minElapsed' = None
    /\ trial' = 0 /\ step' = 1
    /\ events' = << >> /\ elapsedLog' = << >> /\ execs' = 0 /\ failedAt' = 0
    /\ lastWrite' = << >>
    /\ UNCHANGED << cfgVars, gi, fi, oi, contents, timers, reads, outVars >>

\* data.as_mut_slice().clone_from_slice(contents.as_slice())
Restore ==
    /\ pc = "trial" /\ CurStep = "restore"
    /\ data' = clone_from_slice(data, contents)
    /\ Log("restore")
    /\ Advance
    /\ UNCHANGED << cfgVars, panic, gi, fi, oi, contents, val, buf, bufCap, minElapsed,
                    timers, elapsedLog, execs, failedAt, failedTriples, lastWrite, reads,
                    outVars >>

\* buf.clear() in bench_with_buf
ClearBuf ==
    /\ pc = "trial" /\ CurStep = "clear"
    /\ buf' = clear(buf)
    /\ Log("clear")
    /\ Advance
    /\ UNCHANGED << cfgVars, panic, gi, fi, oi, contents, data, val, bufCap, minElapsed,
                    timers, elapsedLog, execs, failedAt, failedTriples, lastWrite, reads,
                    outVars >>

\* benchmark.start()
TimerStart ==
    /\ pc = "trial" /\ CurStep = "start"
    /\ timers' = timers + 1
    /\ Log("start")
    /\ Advance
    /\ UNCHANGED << cfgVars, panic, gi, fi, oi, contents, data, val, buf, bufCap,
                    minElapsed, elapsedLog, execs, failedAt, failedTriples, lastWrite,
                    reads, outVars >>

\* The benchmarked codec call of a trial.
RunOp ==
    /\ pc = "trial" /\ CurStep = "op"
    /\ execs' = execs + 1
    /\ Log("op")
    /\ \E ok \in BOOLEAN :
         IF ok
         THEN /\ IF CurOp \in ParseOps
                 THEN /\ \E d \in (IF CurMode = "manual_simd" THEN Clobbered(data)
                                   ELSE { data }) : data' = d
                      /\ UNCHANGED << buf, bufCap, lastWrite >>
                 ELSE LET w == Serialize(TimedSerializer(CurLib, CurOp), val) IN
                      /\ buf' = buf \o w
                      /\ bufCap' = GrowCap(bufCap, Len(buf) + Len(w))
                      /\ lastWrite' = w
                      /\ data' = data
              /\ Advance
              /\ UNCHANGED << panic, failedAt, failedTriples >>
         ELSE /\ failedAt' = IF failedAt = 0 THEN trial + 1 ELSE failedAt
              /\ failedTriples' = failedTriples \cup { CurTriple }
              /\ IF ClosureUnwraps(CurLib, CurOp)
                 THEN /\ Panics("codec")
                      /\ UNCHANGED << trial, step, data, buf, bufCap, lastWrite >>
                 ELSE /\ Advance
                      /\ panic' = panic
                      /\ lastWrite' = << >>
                      /\ UNCHANGED << data, buf, bufCap >>
    /\ UNCHANGED << cfgVars, gi, fi, oi, contents, val, minElapsed, timers, elapsedLog,
                    reads, outVars >>

\* timer.stop()
TimerStop ==
    /\ pc = "trial" /\ CurStep = "stop"
    /\ timers' = timers - 1
    /\ minElapsed' = FoldMin(minElapsed, clock[trial + 1])
    /\ elapsedLog' = Append(elapsedLog, clock[trial + 1])
    /\ Log("stop")
    /\ Advance
    /\ UNCHANGED << cfgVars, panic, gi, fi, oi, contents, data, val, buf, bufCap, execs,
                    failedAt, failedTriples, lastWrite, reads, outVars >>

\* After the loop: min_elapsed(), the re-serialization that yields the byte
\* count of a stringify, and the print of the throughput field.
Report ==
    /\ pc = "report"
    /\ IF MinElapsedFails(minElapsed)
       THEN /\ Panics("min_elapsed")
            /\ UNCHANGED << oi, opVars, events, elapsedLog, execs, failedAt,
                            failedTriples, lastWrite, out >>
       ELSE \E ok \in (IF CurOp \in StringifyOps THEN BOOLEAN ELSE { TRUE }) :
              IF ok
              THEN LET isStr == CurOp \in StringifyOps
                       serialized == IF isStr
                                     THEN Serialize(MeasuredSerializer(CurLib, CurOp), val)
                                     ELSE << >>
                       bytes == ReportBytes(CurOp, contents, serialized)
                       dur == minElapsed[1]
                   IN
                   /\ out' = AppendField(
                        [ kind |-> "value", op |-> CurOp, dur |-> dur, bytes |-> bytes,
                          rate |-> throughput(dur, bytes),
                          mode |-> CurMode,
                          trials |-> trial, execs |-> execs, elapsed |-> elapsedLog,
                          timedSer |-> IF isStr THEN TimedSerializer(CurLib, CurOp) ELSE "none",
                          lenSer |-> IF isStr THEN MeasuredSerializer(CurLib, CurOp) ELSE "none",
                          val |-> val, buf |-> buf, lastWrite |-> lastWrite,
                          failedAt |-> failedAt ])
                   /\ oi' = oi + 1
                   /\ pc' = "op" /\ panic' = panic
                   /\ data' = << >> /\ val' = NoValue /\ buf' = << >> /\ bufCap' = 0
                   /\ minElapsed' = None
                   /\ events' = << >> /\ elapsedLog' = << >> /\ execs' = 0
                   /\ failedAt' = 0 /\ lastWrite' = << >>
                   /\ UNCHANGED << contents, timers, failedTriples >>
              ELSE /\ Panics("codec")
                   /\ failedTriples' = failedTriples \cup { CurTriple }
                   /\ UNCHANGED << oi, opVars, events, elapsedLog, execs, failedAt,
                                   lastWrite, out >>
    /\ UNCHANGED << cfgVars, gi, fi, trial, step, reads, headers >>

Next ==
    \/ Main
    \/ BenchGroup
    \/ EndGroup
    \/ Finish
    \/ BeginRow
    \/ SkipOp
    \/ EndRow
    \/ BeginOp
    \/ Restore
    \/ ClearBuf
    \/ TimerStart
    \/ RunOp
    \/ TimerStop
    \/ Report

Spec == Init /\ [][Next]_vars

SpecRun == InitRun /\ [][Next]_vars

\* ----------------------------------------------------------- properties
RECURSIVE SeqMin(_)
SeqMin(s) ==
    IF Len(s) = 1 THEN s[1]
    ELSE LET m == SeqMin(Tail(s)) IN IF s[1] < m THEN s[1] ELSE m

\* The throughput fields printed so far, as << row, column >> positions.
ValueFields ==
    { rc \in UNION { { << r, i >> : i \in 1..Len(out[r].fields) } : r \in 1..Len(out) } :
        out[rc[1]].fields[rc[2]].kind = "value" }

FieldAt(rc) == out[rc[1]].fields[rc[2]]

\* What a reader sees in column i of a printed row: the i-th field, or
\* nothing where the row ends early.
Column(r, i) ==
    IF i <= Len(out[r].fields) THEN out[r].fields[i] ELSE Blank(OpOrder[i])

\* C1: every reported duration comes from an invocation that ran the
\* operation exactly num_trials times (num_trials >= 1), timed each of them,
\* and it is the minimum of those num_trials elapsed durations.
C1_MinOverExactlyNTrials ==
    \A rc \in ValueFields :
        LET f == FieldAt(rc)
            n == NumTrials(trialEnv)
        IN /\ n >= 1
           /\ f.trials = n
           /\ f.execs = n
           /\ f.elapsed = [ k \in 1..n |-> clock[k] ]
           /\ f.dur = SeqMin(f.elapsed)

\* C1 witness: a manual-loop run of three trials whose last trial alone is
\* the fastest has been reported.
C1_Witness ==
    \E rc \in ValueFields :
        /\ FieldAt(rc).mode = "manual_simd"
        /\ FieldAt(rc).elapsed = << 2, 2, 1 >>
        /\ FieldAt(rc).dur = 1

\* C2: a codec failure inside a trial ends the run at once: no later trial
\* of that invocation runs and no field is printed from an invocation that
\* had a failing trial.
C2_FailurePropagatedImmediately ==
    /\ failedAt # 0 => pc = "panicked"
    /\ \A rc \in ValueFields : FieldAt(rc).failedAt = 0

\* C3: with the trial count overridden to zero no trial ever executes, no
\* throughput field is ever printed, and an invocation that reaches the end
\* of its (empty) loop has no minimum to report, so it is rejected there.
C3_ZeroTrialsNeverReported ==
    trialEnv = Some(0) =>
        /\ pc # "trial"
        /\ execs = 0
        /\ timers = 0
        /\ ValueFields = {}
        /\ pc = "report" => minElapsed = << >>
        /\ pc = "panicked" => panic \in { "load", "codec", "min_elapsed" }

\* C3 witness: a zero-trial run reached min_elapsed and was rejected there.
C3_Witness ==
    /\ trialEnv = Some(0)
    /\ pc = "panicked"
    /\ panic = "min_elapsed"
    /\ execs = 0

\* C4: the byte count of a stringify field is the length of what the timed
\* serializer writes for the timed value, and the serializer measured is the
\* serializer timed.
C4_StringifyBytesAreOutputLength ==
    \A rc \in ValueFields :
        LET f == FieldAt(rc) IN
        f.op \in StringifyOps =>
            /\ f.lenSer = f.timedSer
            /\ f.val.kind = KindOf(f.op)
            /\ f.bytes = Len(Serialize(f.timedSer, f.val))
            /\ f.rate = throughput(f.dur, Len(Serialize(f.timedSer, f.val)))

\* C4 witness: a stringify-struct field of a bench_file row whose byte count
\* differs from the payload length.
C4_Witness ==
    \E rc \in ValueFields :
        /\ FieldAt(rc).op = "stringify-struct"
        /\ Macro(out[rc[1]].lib) = "bench_file"
        /\ FieldAt(rc).bytes # Len(out[rc[1]].payload)

\* C5: at most one trial timer runs; within a trial the buffer reset and
\* the restore of the private copy come before the timer starts, and after
\* the start only the operation and the stop happen.
C5_TimedWindowOnlyOperation ==
    /\ timers \in { 0, 1 }
    /\ (timers = 1) <=>
         \E i \in 1..Len(events) :
            /\ events[i] = "start"
            /\ \A j \in (i + 1)..Len(events) : events[j] # "stop"
    /\ \A i \in 1..Len(events) :
         /\ events[i] \in { "restore", "clear" } =>
              \A j \in 1..i : events[j] # "start"
         /\ events[i] = "start" =>
              /\ \A j \in 1..(i - 1) : events[j] \in { "restore", "clear" }
              /\ \A j \in (i + 1)..Len(events) : events[j] \in { "op", "stop" }
              /\ CurMode \in { "manual_simd", "bench_with_buf" } => i = 2
         /\ events[i] = "stop" => i > 1 /\ events[i - 1] = "op"

\* C5 witness: in a later trial of the in-place parser's loop the copy has
\* been restored, the timer started and the parse run, the timer still on.
C5_Witness ==
    /\ pc = "trial"
    /\ CurMode = "manual_simd"
    /\ trial >= 1
    /\ events = << "restore", "start", "op" >>
    /\ timers = 1

\* C6: in buffer mode the scratch buffer is empty when a trial's timer is
\* about to start, after each write it holds exactly what that one call
\* wrote (within its capacity), and a reported run ends with the buffer
\* holding one serialization of the value.
C6_ScratchBufferHoldsOneOutput ==
    /\ (pc = "trial" /\ CurMode = "bench_with_buf" /\ CurStep \in { "start", "op" })
          => buf = << >>
    /\ (pc \in { "trial", "report" } /\ CurMode = "bench_with_buf") =>
          /\ Len(buf) <= bufCap
          /\ bufCap >= Len(contents)
          /\ (pc = "report" \/ CurStep = "stop" \/ (trial >= 1 /\ CurStep = "clear"))
                => buf = lastWrite
    /\ \A rc \in ValueFields :
          LET f == FieldAt(rc) IN
          f.mode = "bench_with_buf" =>
              /\ f.buf = f.lastWrite
              /\ f.failedAt = 0 => f.buf = Serialize(f.timedSer, f.val)

\* C6 witness: a later trial of a buffer-mode run has written an output
\* longer than the size hint into the reused buffer.
C6_Witness ==
    /\ pc = "trial"
    /\ CurMode = "bench_with_buf"
    /\ trial >= 1
    /\ events = << "clear", "start", "op" >>
    /\ Len(buf) > Len(contents)
    /\ buf = lastWrite

\* C7: while a row runs its payload is the one loaded at the start of the
\* row; simd-json's private copy has the payload's length, and equals the
\* payload when a timed in-place parse is about to run.
C7_PayloadNeverMutated ==
    /\ pc \in { "op", "trial", "report" } =>
          /\ out[Len(out)].loaded
          /\ contents = out[Len(out)].payload
    /\ (pc \in { "trial", "report" } /\ Macro(CurLib) = "bench_file_simd_json") =>
          Len(data) = Len(contents)
    /\ (pc = "trial" /\ CurMode = "manual_simd" /\ CurStep = "op") => data = contents

\* C7 witness: a later trial of the in-place parser is about to parse a
\* restored copy of a payload that has bytes a parse can clobber.
C7_Witness ==
    /\ pc = "trial"
    /\ CurMode = "manual_simd"
    /\ trial >= 1
    /\ CurStep = "op"
    /\ data = contents
    /\ \E i \in 1..Len(contents) : contents[i] # 0

RowsOf(p) == { r \in 1..Len(out) : out[r].path = p }

\* C8 as stated: a fixture file is read at most once in a run, and all rows
\* of a fixture benchmark the same payload.
C8_FixtureReadOncePerRun ==
    /\ \A p \in Files : reads[p] <= 1
    /\ \A r1, r2 \in 1..Len(out) :
          (out[r1].path = out[r2].path /\ out[r1].loaded /\ out[r2].loaded)
             => out[r1].payload = out[r2].payload

\* C8 amended: a fixture file is read once per library row; a row of a JSON
\* library benchmarks the file's bytes and an rmp row their MessagePack
\* re-encoding; no (library, fixture) pair has two rows.
C8_FixtureReadOncePerRow ==
    /\ \A p \in Files : reads[p] = Cardinality({ r \in RowsOf(p) : out[r].loaded })
    /\ \A r \in 1..Len(out) :
          out[r].loaded =>
             out[r].payload = IF out[r].lib = "rmp"
                              THEN << 9 >> \o ParseJson(FileBytes(out[r].path))
                              ELSE FileBytes(out[r].path)
    /\ \A r1, r2 \in 1..Len(out) :
          (out[r1].path = out[r2].path /\ out[r1].lib = out[r2].lib) => r1 = r2

\* C8 witness: one fixture has been read for a JSON row and again for the
\* rmp row, whose payload differs.
C8_Witness ==
    \E r1, r2 \in 1..Len(out) :
        /\ out[r1].path = out[r2].path
        /\ out[r1].lib = "serde_json" /\ out[r2].lib = "rmp"
        /\ out[r1].loaded /\ out[r2].loaded
        /\ out[r1].payload # out[r2].payload
        /\ reads[out[r1].path] = 2

\* C9: once a codec call has failed in a triple the process has terminated,
\* and no throughput field of that triple is on the output.
C9_FailureAbortsRun ==
    \A t \in failedTriples :
        /\ pc = "panicked"
        /\ \A rc \in ValueFields :
              << out[rc[1]].lib, out[rc[1]].path, FieldAt(rc).op >> # t

\* C10 as stated: in a finished row, column i belongs to the i-th operation
\* and shows a value exactly if that operation's feature is enabled.
C10_ColumnIffFeature ==
    \A r \in 1..Len(out) :
        out[r].done =>
            /\ Len(out[r].fields) <= Len(OpOrder)
            /\ \A i \in 1..Len(OpOrder) :
                  /\ Column(r, i).op = OpOrder[i]
                  /\ (Column(r, i).kind = "value") <=> (OpOrder[i] \in cfg.ops)

\* C10 amended: in a finished row, column i belongs to the i-th operation
\* and shows a value exactly if that operation's feature is enabled and the
\* row is not simd-json's stringify-struct, which is always blank.
C10_ColumnIffFeatureAndImplemented ==
    \A r \in 1..Len(out) :
        out[r].done =>
            /\ Len(out[r].fields) <= Len(OpOrder)
            /\ \A i \in 1..Len(OpOrder) :
                  /\ Column(r, i).op = OpOrder[i]
                  /\ (Column(r, i).kind = "value") <=>
                        /\ OpOrder[i] \in cfg.ops
                        /\ ~ (out[r].lib = "simd-json" /\ OpOrder[i] = "stringify-struct")

\* C10 witness: a finished simd-json row of a build with stringify-struct
\* enabled and parse-dom disabled.
C10_Witness ==
    \E r \in 1..Len(out) :
        /\ out[r].done
        /\ out[r].lib = "simd-json"
        /\ cfg.ops = { "stringify-dom", "parse-struct", "stringify-struct" }
        /\ Column(r, 1).kind = "blank"
        /\ Column(r, 2).kind = "value"
        /\ Column(r, 4).kind = "blank"

====
